---- MODULE Spec2Model ----
(***************************************************************************)
(* The ReservoirGraph component (src/web/src/App.tsx, lines 475-1005):     *)
(* the render pass of its useEffect (fixed layout, view box, initial zoom, *)
(* link paths, node glyphs with the hub's text fitting, legend) and the    *)
(* three zoom button handlers.                                             *)
(*                                                                         *)
(* Numbers.  Every layout coordinate the code computes is an integer, so   *)
(* coordinates are integers.  A JavaScript `undefined`, NaN and -Infinity  *)
(* are the three values Undefined, NaN and NegInfinity, which the          *)
(* arithmetic below propagates the way JavaScript does.  The zoom scale is *)
(* a decimal fraction: it is kept as an integer count of 10^-ScaleDigits.  *)
(* Text widths and heights are kept in tenths (CharWidths hold tenths of   *)
(* an em per character; the line height factor 1.2 is 12 tenths).          *)
(***************************************************************************)
EXTENDS Integers, Sequences, FiniteSets, TLC

(***************************************************************************)
(* Bounds of the model.                                                    *)
(***************************************************************************)
MaxPer == 3        \* nodes per category (inflow, outflow, project): 0..MaxPer
MaxHubs == 2       \* main_reservoir nodes in a graph: 0..MaxHubs
MaxWords == 6      \* words in a hub label: 0..MaxWords
MaxLinks == 2      \* links in a graph of the link family: 0..MaxLinks
ScaleDigits == 6   \* decimal digits kept of the zoom scale
MaxZoomIns == 50   \* cap of the count of consecutive zoomIn calls

(***************************************************************************)
(* LAYOUT (App.tsx 484-497), ZOOM (500-506) and the literals of the pass.  *)
(***************************************************************************)
NODE_SPACING == 40
HORIZONTAL_SPACING == 220
PADDING == 100
MAIN_RECT_WIDTH == 180
MAIN_RECT_HEIGHT == 80
MAIN_RECT_PADDING == 10
LEGEND_WIDTH == 63
LEGEND_ITEM_HEIGHT == 14
LEGEND_PADDING == 16
LEGEND_OFFSET == 40
RIGHT_MARGIN == 200        \* the literal 200 of maxX
MAX_FONT == 16             \* let fontSize = 16
MIN_FONT == 10             \* while (fontSize >= 10)
LINE_HEIGHT_TENTHS == 12   \* lineHeight = fontSize * 1.2
LABEL_FONT == 13           \* font-size 13px of the circle labels

ScaleUnit == 10 ^ ScaleDigits
MIN_SCALE == (5 * ScaleUnit) \div 10        \* 0.5
MAX_SCALE == 3 * ScaleUnit                  \* 3
INITIAL_SCALE == (8 * ScaleUnit) \div 10    \* 0.8
IDENTITY_SCALE == ScaleUnit                 \* d3.zoomIdentity.k = 1
ZOOM_IN_TENTHS == 13                        \* ZOOM_IN_FACTOR 1.3
ZOOM_OUT_TENTHS == 7                        \* ZOOM_OUT_FACTOR 0.7

contentCenterX == 0
contentCenterY == 0
leftX == contentCenterX
rightX == contentCenterX

(***************************************************************************)
(* JavaScript values that are not numbers, and arithmetic over them.       *)
(***************************************************************************)
Undefined == 2000000001
NaN == 2000000002
NegInfinity == 2000000003

IsNum(v) == v \notin {Undefined, NaN, NegInfinity}

JsAdd(a, b) ==
    IF a \in {Undefined, NaN} \/ b \in {Undefined, NaN} THEN NaN
    ELSE IF a = NegInfinity \/ b = NegInfinity THEN NegInfinity
    ELSE a + b

JsHalf(a) ==
    IF a \in {Undefined, NaN} THEN NaN
    ELSE IF a = NegInfinity THEN NegInfinity
    ELSE a \div 2

Min2(a, b) == IF a <= b THEN a ELSE b
Max2(a, b) == IF a >= b THEN a ELSE b

(***************************************************************************)
(* The Graph Data Model (INode, ILink, IGraphData).  An id is a pair       *)
(* <<category, index>>; a label is the sequence of the lengths of its      *)
(* words (the words themselves play no part in the pass).                  *)
(***************************************************************************)
NodeTypes == {"main_reservoir", "inflow", "outflow", "project"}

INode(id, label, type) == [id |-> id, label |-> label, type |-> type]
ILink(source, target) == [source |-> source, target |-> target]
IGraphData(nodes, links) == [nodes |-> nodes, links |-> links]

PlainLabel == <<6, 1>>      \* a two-word label such as "Inflow 1"
HubLabel == <<4, 9>>        \* "Main Reservoir"

(***************************************************************************)
(* Fixed layout (App.tsx 566-635).  `ns` is the pass's own node sequence.  *)
(***************************************************************************)
\* nodes.filter((n) => n.type === t).length
Count(ns, t) == Cardinality({j \in 1..Len(ns) : ns[j].type = t})

\* the index i that filter(...).forEach((node, i) => ...) hands node ns[n]
Rank(ns, n) == Cardinality({j \in 1..(n - 1) : ns[j].type = ns[n].type})

\* mutant of mainNode: the last hub in input order is taken
mainNode_Last(ns) ==
    LET hubs == {j \in 1..Len(ns) : ns[j].type = "main_reservoir"}
    IN IF hubs = {} THEN 0 ELSE CHOOSE j \in hubs : \A h \in hubs : j >= h

\* nodes.find((n) => n.type === 'main_reservoir'): its index, 0 when none
mainNode(ns) ==
    LET hubs == {j \in 1..Len(ns) : ns[j].type = "main_reservoir"}
    IN IF hubs = {} THEN 0 ELSE CHOOSE j \in hubs : \A h \in hubs : j <= h

hasOutflows(ns) == Count(ns, "outflow") > 0
hasProjects(ns) == Count(ns, "project") > 0

\* mutant of CenteredStartY: the column height is not halved
CenteredStartY_NoHalf(n) == contentCenterY - (n - 1) * NODE_SPACING

\* the start Y of a column that holds one category alone
CenteredStartY(n) == contentCenterY - ((n - 1) * NODE_SPACING) \div 2

inflowStartY(ns) == CenteredStartY(Count(ns, "inflow"))

outflowConnectorY == contentCenterY - MAIN_RECT_HEIGHT \div 4

\* mutant of projectConnectorY: the sign of the outflow anchor is kept
projectConnectorY_Above == contentCenterY - MAIN_RECT_HEIGHT \div 4

projectConnectorY == contentCenterY + MAIN_RECT_HEIGHT \div 4

\* mutant of StackedOutflowStartY: the group is centred on its anchor
StackedOutflowStartY_Centered(n) ==
    outflowConnectorY - ((n - 1) * NODE_SPACING) \div 2

\* outflowStartY of the branch hasOutflows && hasProjects
StackedOutflowStartY(n) == outflowConnectorY - (n - 1) * NODE_SPACING

outflowStartY(ns) ==
    IF hasOutflows(ns) /\ hasProjects(ns)
        THEN StackedOutflowStartY(Count(ns, "outflow"))
    ELSE IF hasOutflows(ns) THEN CenteredStartY(Count(ns, "outflow"))
    ELSE contentCenterY

projectStartY(ns) ==
    IF hasOutflows(ns) /\ hasProjects(ns) THEN projectConnectorY
    ELSE IF hasOutflows(ns) THEN contentCenterY
    ELSE IF hasProjects(ns) THEN CenteredStartY(Count(ns, "project"))
    ELSE contentCenterY

\* node.fx after the layout; Undefined when no branch assigns it
NodeFx(ns, n) ==
    IF ns[n].type = "main_reservoir"
        THEN IF n = mainNode(ns) THEN contentCenterX ELSE Undefined
    ELSE IF ns[n].type = "inflow" THEN leftX - HORIZONTAL_SPACING
    ELSE rightX + HORIZONTAL_SPACING

\* node.fy after the layout
NodeFy(ns, n) ==
    IF ns[n].type = "main_reservoir"
        THEN IF n = mainNode(ns) THEN contentCenterY ELSE Undefined
    ELSE IF ns[n].type = "inflow"
        THEN inflowStartY(ns) + Rank(ns, n) * NODE_SPACING
    ELSE IF ns[n].type = "outflow"
        THEN outflowStartY(ns) + Rank(ns, n) * NODE_SPACING
    ELSE projectStartY(ns) + Rank(ns, n) * NODE_SPACING

\* the pass's nodes: Object.create(d) copies carrying fx and fy
LayoutNodes(ns) ==
    [n \in 1..Len(ns) |->
        [id |-> ns[n].id, label |-> ns[n].label, type |-> ns[n].type,
         fx |-> NodeFx(ns, n), fy |-> NodeFy(ns, n)]]

(***************************************************************************)
(* Bounds of the view box (App.tsx 637-650).                               *)
(***************************************************************************)
minX == leftX - HORIZONTAL_SPACING - PADDING
maxX == rightX + HORIZONTAL_SPACING + RIGHT_MARGIN

minY(ns) == Min2(inflowStartY(ns), outflowStartY(ns)) - PADDING

\* mutant of maxY: the bound is taken from the positioned nodes
maxY_OfNodes(ns) ==
    LET ys == {IF NodeFy(ns, n) = Undefined THEN 0 ELSE NodeFy(ns, n) :
                  n \in 1..Len(ns)}
    IN IF ys = {} THEN NegInfinity
       ELSE (CHOOSE y \in ys : \A z \in ys : y >= z) + PADDING

maxY(ns) ==
    Max2(inflowStartY(ns) + (Count(ns, "inflow") - 1) * NODE_SPACING,
         projectStartY(ns) + (Count(ns, "project") - 1) * NODE_SPACING)
    + PADDING

ViewBox(ns) ==
    [minX |-> minX, minY |-> minY(ns), maxX |-> maxX, maxY |-> maxY(ns),
     width |-> maxX - minX, height |-> maxY(ns) - minY(ns)]

(***************************************************************************)
(* Links with right-angle connectors (App.tsx 671-716).  `ps` is the       *)
(* positioned node sequence of the pass.                                   *)
(***************************************************************************)
\* nodes.find((n) => n.id === id): its index, 0 when the id resolves to none
FindById(ps, id) ==
    LET hits == {j \in 1..Len(ps) : ps[j].id = id}
    IN IF hits = {} THEN 0 ELSE CHOOSE j \in hits : \A h \in hits : j <= h

\* the negation of: if (!source || !target) return;
LinkResolves(ps, link) ==
    FindById(ps, link.source) # 0 /\ FindById(ps, link.target) # 0

\* mutant of PathColor: the target's category is taken for every link
PathColor_Target(source, target) == target.type

\* targetType: the COLOR_MAP key the path's stroke is taken from
PathColor(source, target) ==
    IF target.type = "main_reservoir"
        THEN (IF source.type = "inflow" THEN "inflow" ELSE source.type)
        ELSE target.type

\* x1, y1: the source position, moved to the hub rectangle's right edge
PathStartX(source) ==
    IF source.type = "main_reservoir"
        THEN JsAdd(source.fx, MAIN_RECT_WIDTH \div 2)
        ELSE source.fx

\* mutant of PathStartY: the hub's paths start at its vertical centre
PathStartY_Centre(source, target) == source.fy

PathStartY(source, target) ==
    IF source.type = "main_reservoir" /\ target.type = "outflow"
        THEN JsAdd(source.fy, -(MAIN_RECT_HEIGHT \div 4))
    ELSE IF source.type = "main_reservoir" /\ target.type = "project"
        THEN JsAdd(source.fy, MAIN_RECT_HEIGHT \div 4)
    ELSE source.fy

\* mutant of PathPoints: a straight connector drops its zero-length elbow
PathPoints_SkipDegenerate(x1, y1, x2, y2) ==
    LET midX == JsHalf(JsAdd(x1, x2))
    IN IF y1 = y2 THEN << <<x1, y1>>, <<x2, y2>> >>
       ELSE << <<x1, y1>>, <<midX, y1>>, <<midX, y2>>, <<x2, y2>> >>

\* pathData: M x1,y1 L midX,y1 L midX,y2 L x2,y2
PathPoints(x1, y1, x2, y2) ==
    LET midX == JsHalf(JsAdd(x1, x2))
    IN << <<x1, y1>>, <<midX, y1>>, <<midX, y2>>, <<x2, y2>> >>

PathOf(ps, link) ==
    LET source == ps[FindById(ps, link.source)]
        target == ps[FindById(ps, link.target)]
    IN [points |-> PathPoints(PathStartX(source), PathStartY(source, target),
                              target.fx, target.fy),
        color |-> PathColor(source, target)]

\* mutant of DrawLinks: the first dangling link ends the loop
RECURSIVE DrawLinks_StopAtDangling(_, _, _)
DrawLinks_StopAtDangling(ps, links, i) ==
    IF i > Len(links) \/ ~LinkResolves(ps, links[i]) THEN <<>>
    ELSE <<PathOf(ps, links[i])>> \o DrawLinks_StopAtDangling(ps, links, i + 1)

\* links.forEach: one path per link that resolves, in link order
RECURSIVE DrawLinks(_, _, _)
DrawLinks(ps, links, i) ==
    IF i > Len(links) THEN <<>>
    ELSE IF ~LinkResolves(ps, links[i]) THEN DrawLinks(ps, links, i + 1)
    ELSE <<PathOf(ps, links[i])>> \o DrawLinks(ps, links, i + 1)

(***************************************************************************)
(* Text fitting of the hub label (App.tsx 736-809).  A line is the         *)
(* sequence of the lengths of its words; `cw` is the width of a character  *)
(* in tenths of the font size (getComputedTextLength of the surface).      *)
(***************************************************************************)
maxWidth == MAIN_RECT_WIDTH - MAIN_RECT_PADDING * 2
maxHeight == MAIN_RECT_HEIGHT - MAIN_RECT_PADDING * 2

\* text.split(/\s+/): the empty label splits into one empty word
SplitWords(label) == IF label = <<>> THEN <<0>> ELSE label

RECURSIVE SumLens(_)
SumLens(line) == IF line = <<>> THEN 0 ELSE Head(line) + SumLens(Tail(line))

\* characters of the words joined by single spaces
Chars(line) == IF line = <<>> THEN 0 ELSE SumLens(line) + (Len(line) - 1)

\* getComputedTextLength of `line` at `fontSize`, in tenths of a pixel
Measure(line, fontSize, cw) == Chars(line) * fontSize * cw

\* testLine = currentLine ? `${currentLine} ${word}` : word
TestLine(currentLine, word) ==
    IF currentLine = <<>>
        THEN (IF word = 0 THEN <<>> ELSE <<word>>)
        ELSE Append(currentLine, word)

\* mutant of ClosesLine: the rectangle's padding is not taken off
ClosesLine_NoPadding(width, currentLine) ==
    width > MAIN_RECT_WIDTH * 10 /\ currentLine # <<>>

\* if (width > maxWidth && currentLine)
ClosesLine(width, currentLine) == width > maxWidth * 10 /\ currentLine # <<>>

\* words.forEach of wrapText, from word i on, and the final push
RECURSIVE WrapFrom(_, _, _, _, _, _)
WrapFrom(words, i, currentLine, lines, fontSize, cw) ==
    IF i > Len(words)
        THEN (IF currentLine # <<>> THEN Append(lines, currentLine) ELSE lines)
    ELSE LET testLine == TestLine(currentLine, words[i])
             width == Measure(testLine, fontSize, cw)
         IN IF ClosesLine(width, currentLine)
                THEN WrapFrom(words, i + 1, <<words[i]>>,
                              Append(lines, currentLine), fontSize, cw)
                ELSE WrapFrom(words, i + 1, testLine, lines, fontSize, cw)

wrapText(label, fontSize, cw) ==
    WrapFrom(SplitWords(label), 1, <<>>, <<>>, fontSize, cw)

\* mutant of NextFontSize: the search steps down by two
NextFontSize_ByTwo(fontSize) == fontSize - 2

\* the font size the search goes on with after a size that does not fit
NextFontSize(fontSize) == fontSize - 1

\* while (fontSize >= 10) { ... }: fontSize, lines and lineHeight (tenths)
\* as the loop leaves them, and the number of sizes the loop body ran for
RECURSIVE FontSearch(_, _, _, _, _)
FontSearch(label, cw, fontSize, lines, lineHeight) ==
    IF fontSize >= MIN_FONT
        THEN LET ls == wrapText(label, fontSize, cw)
                 lh == fontSize * LINE_HEIGHT_TENTHS
             IN IF Len(ls) * lh <= maxHeight * 10
                    THEN [fontSize |-> fontSize, lines |-> ls,
                          lineHeight |-> lh, tried |-> 1]
                    ELSE [FontSearch(label, cw, NextFontSize(fontSize), ls, lh)
                             EXCEPT !.tried = @ + 1]
        ELSE [fontSize |-> fontSize, lines |-> lines,
              lineHeight |-> lineHeight, tried |-> 0]

FitText(label, cw) == FontSearch(label, cw, MAX_FONT, <<>>, 0)

(***************************************************************************)
(* Node glyphs (App.tsx 718-848) and the legend (850-911).                 *)
(***************************************************************************)
\* one <g> per node at translate(fx, fy); the hub's text is fitted, every
\* other label is drawn on one line at 13px
GlyphOf(node, cw) ==
    IF node.type = "main_reservoir"
        THEN LET fit == FitText(node.label, cw)
             IN [x |-> node.fx, y |-> node.fy, type |-> node.type,
                 shape |-> "rect", fontSize |-> fit.fontSize,
                 lines |-> fit.lines, lineHeight |-> fit.lineHeight,
                 tried |-> fit.tried, anchor |-> "middle"]
        ELSE [x |-> node.fx, y |-> node.fy, type |-> node.type,
              shape |-> "circle", fontSize |-> LABEL_FONT,
              lines |-> <<node.label>>, lineHeight |-> 0,
              tried |-> 0, anchor |-> IF node.type = "inflow" THEN "end" ELSE "start"]

DrawNodes(ps, cw) == [n \in 1..Len(ps) |-> GlyphOf(ps[n], cw)]

legendItems == <<"inflow", "outflow", "project", "main_reservoir">>

\* n.fy || 0
FyOrZero(node) == IF node.fy \in {Undefined, NaN} THEN 0 ELSE node.fy

\* Math.max(...nodes.map(n => n.fy || 0)); Math.max() of nothing is -Infinity
bottomMostY(ps) ==
    IF Len(ps) = 0 THEN NegInfinity
    ELSE LET ys == {FyOrZero(ps[n]) : n \in 1..Len(ps)}
         IN CHOOSE y \in ys : \A z \in ys : y >= z

\* mutant of Legend: a row is listed only for a category that is present
Legend_PresentOnly(ps) ==
    LET present(t) == \E n \in 1..Len(ps) : ps[n].type = t
    IN [x |-> maxX - LEGEND_WIDTH - 10,
        y |-> JsAdd(bottomMostY(ps), LEGEND_OFFSET),
        width |-> LEGEND_WIDTH,
        height |-> Len(legendItems) * LEGEND_ITEM_HEIGHT + LEGEND_PADDING,
        items |-> SelectSeq(legendItems, present)]

Legend(ps) ==
    [x |-> maxX - LEGEND_WIDTH - 10,
     y |-> JsAdd(bottomMostY(ps), LEGEND_OFFSET),
     width |-> LEGEND_WIDTH,
     height |-> Len(legendItems) * LEGEND_ITEM_HEIGHT + LEGEND_PADDING,
     items |-> legendItems]

(***************************************************************************)
(* Viewport (App.tsx 656-669, 920-938).  d3-zoom keeps the transform       *)
(* {k, x, y} of the svg; scaleBy multiplies k and clamps it to the         *)
(* scaleExtent, transform(t) installs t as it is.  The buttons run these   *)
(* through a d3 transition; a handler is modelled by the transform its     *)
(* transition ends on.  scaleBy zooms about the centre of the view box, so *)
(* it moves the translation as well: x' = c - (c - x) * k' / k.  These are *)
(* not integers; the model lets the translation end on any value of        *)
(* Translations, which covers what the formula can yield on that grid.     *)
(***************************************************************************)
\* mutant of ScaleClamp: the scale extent is not applied
ScaleClamp_Unclamped(k) == k

\* .scaleExtent([ZOOM.MIN_SCALE, ZOOM.MAX_SCALE]) as scaleBy applies it
ScaleClamp(k) == Max2(MIN_SCALE, Min2(MAX_SCALE, k))

\* k0 * factor of scaleBy, the factor given in tenths
ScaleBy(k, tenths) == ScaleClamp((k * tenths) \div 10)

\* the product is a multiple of 10^-ScaleDigits, or is clamped anyway
Representable(k, tenths) ==
    \/ (k * tenths) % 10 = 0
    \/ (k * tenths) \div 10 >= MAX_SCALE
    \/ (k * tenths) \div 10 < MIN_SCALE

\* mutant of ZoomDisplay: the percentage is cut off, not rounded
ZoomDisplay_Floor(z) == z \div (ScaleUnit \div 100)

\* Math.round(zoomLevel * 100), the number shown before the % sign
ZoomDisplay(z) == (z + ScaleUnit \div 200) \div (ScaleUnit \div 100)

\* d3.zoomIdentity.scale(ZOOM.INITIAL_SCALE)
InitialTransform == [k |-> INITIAL_SCALE, x |-> 0, y |-> 0]

\* d3.zoomIdentity, the argument of handleResetZoom
ResetTransform == [k |-> IDENTITY_SCALE, x |-> 0, y |-> 0]

\* translations a gesture or a zoom about the view centre may leave
Translations == {-60, 0, 60}

\* scales a wheel gesture may ask for, before clamping
WheelScales == {ScaleUnit \div 4, 2 * ScaleUnit, 4 * ScaleUnit}

(***************************************************************************)
(* Input graphs.                                                           *)
(***************************************************************************)
HubId(h) == <<"reservoir", h>>
GhostId == <<"ghost", 0>>

Column(type, n) == [i \in 1..n |-> INode(<<type, i - 1>>, PlainLabel, type)]

\* hub first (as parseReservoirConfig emits it), further hubs last
ShapeNodes(nh, ni, no, np, hubLabel) ==
    (IF nh >= 1 THEN <<INode(HubId(1), hubLabel, "main_reservoir")>> ELSE <<>>)
    \o Column("inflow", ni) \o Column("outflow", no) \o Column("project", np)
    \o [h \in 1..(nh - 1) |-> INode(HubId(h + 1), hubLabel, "main_reservoir")]

\* the links of parseReservoirConfig
ParserLinks(ni, no, np) ==
    [i \in 1..ni |-> ILink(<<"inflow", i - 1>>, HubId(1))]
    \o [i \in 1..no |-> ILink(HubId(1), <<"outflow", i - 1>>)]
    \o [i \in 1..np |-> ILink(HubId(1), <<"project", i - 1>>)]

ShapeGraph(nh, ni, no, np) ==
    IGraphData(ShapeNodes(nh, ni, no, np, HubLabel), ParserLinks(ni, no, np))

ShapeGraphs ==
    {ShapeGraph(nh, ni, no, np) :
        nh \in 0..MaxHubs, ni \in 0..MaxPer, no \in 0..MaxPer, np \in 0..MaxPer}

WordLens == {3, 14, 30}
Labels == UNION {[1..n -> WordLens] : n \in 0..MaxWords}
CharWidths == {5, 6}
PlainCharWidth == CHOOSE w \in CharWidths : \A v \in CharWidths : w >= v

LabelGraphs ==
    {IGraphData(<<INode(HubId(1), l, "main_reservoir")>>, <<>>) : l \in Labels}

\* hubs that come after the inflows, the last-numbered hub first
LateHubNodes(nh, ni, no, np) ==
    Column("inflow", ni)
    \o [h \in 1..nh |-> INode(HubId(nh + 1 - h), HubLabel, "main_reservoir")]
    \o Column("outflow", no) \o Column("project", np)

LateHubGraphs ==
    {IGraphData(LateHubNodes(nh, ni, no, np), ParserLinks(ni, no, np)) :
        nh \in 1..MaxHubs, ni \in 0..1, no \in 0..1, np \in 0..1}

\* graphs without nodes, with and without (dangling) links
EmptyNodeGraphs ==
    {IGraphData(<<>>, ParserLinks(ni, no, np)) :
        ni \in 0..1, no \in 0..1, np \in 0..1}

LinkNodes == ShapeNodes(2, 1, 1, 1, HubLabel)
LinkEnds == {LinkNodes[n].id : n \in 1..Len(LinkNodes)} \cup {GhostId}
LinkSeqs ==
    UNION {[1..n -> {ILink(s, t) : s \in LinkEnds, t \in LinkEnds}] :
              n \in 0..MaxLinks}
LinkGraphs == {IGraphData(LinkNodes, ls) : ls \in LinkSeqs}

emptyData == IGraphData(<<>>, <<>>)
singleNodeData == ShapeGraph(1, 0, 0, 0)
mixedData == ShapeGraph(1, 3, 2, 3)
ViewGraphs == {emptyData, singleNodeData, mixedData}

(***************************************************************************)
(* State.                                                                  *)
(***************************************************************************)
VARIABLES
    data,        \* the data prop: the caller's Graph
    charW,       \* the surface's text metric (tenths of an em per character)
    mounted,     \* the effect has run: svgRef and zoomBehaviorRef are set
    nodes,       \* the pass's positioned copies of data.nodes
    viewBox,     \* the svg's viewBox bounds
    paths,       \* the <path> elements of g.links
    glyphs,      \* the <g> elements of g.nodes
    legend,      \* the g.legend block
    transform,   \* the zoom transform of the svg (__zoom)
    zoomLevel,   \* the component state shown as a percentage
    zoomIns,     \* zoomIn calls since the last pass, -1 once another
                 \* operation came between
    lastOp,      \* the handler that ran last
    replaced     \* what the last operation, if it supplied a new Graph,
                 \* found: the scale and the numbers of glyphs and paths

vars == <<data, charW, mounted, nodes, viewBox, paths, glyphs, legend,
          transform, zoomLevel, zoomIns, lastOp, replaced>>

scene == <<nodes, viewBox, paths, glyphs, legend>>

\* the component right after construction, before its effect has run
Unmounted ==
    /\ mounted = FALSE
    /\ nodes = <<>>
    /\ viewBox = <<>>
    /\ paths = <<>>
    /\ glyphs = <<>>
    /\ legend = <<>>
    /\ transform = ResetTransform
    /\ zoomLevel = INITIAL_SCALE
    /\ zoomIns = -1
    /\ lastOp = "none"
    /\ replaced = <<>>

\* mutant of CallerRecord: the pass works on the caller's records themselves
CallerRecord_Shared(d, copy) == copy

\* the caller's record d after the pass has assigned fx and fy to
\* copy = Object.create(d): own properties of the copy leave d as it was
CallerRecord(d, copy) == d

\* the caller's Graph after a pass over it; linksData is never written to
CallerGraph(g) ==
    IGraphData([n \in 1..Len(g.nodes) |->
                   CallerRecord(g.nodes[n], LayoutNodes(g.nodes)[n])],
               g.links)

\* mutant of Teardown: the elements of the previous pass stay
Teardown_Keep(elements) == elements

\* svg.selectAll('*').remove(): what is left of a group of the old scene
Teardown(elements) == <<>>

\* the effect body for the Graph g: teardown, layout, view box, initial
\* zoom (whose zoom event sets zoomLevel), links, nodes, legend
RenderPass(g) ==
    /\ mounted' = TRUE
    /\ nodes' = LayoutNodes(g.nodes)
    /\ viewBox' = ViewBox(g.nodes)
    /\ transform' = InitialTransform
    /\ zoomLevel' = InitialTransform.k
    /\ paths' = Teardown(paths) \o DrawLinks(LayoutNodes(g.nodes), g.links, 1)
    /\ glyphs' = Teardown(glyphs) \o DrawNodes(LayoutNodes(g.nodes), charW)
    /\ legend' = Legend(LayoutNodes(g.nodes))
    /\ zoomIns' = 0

\* first run of useEffect(..., [data])
Mount ==
    /\ ~mounted
    /\ RenderPass(data)
    /\ data' = CallerGraph(data)
    /\ lastOp' = "render"
    /\ replaced' = <<>>
    /\ UNCHANGED charW

\* a new Graph is supplied: the effect runs again
SupplyGraph(g) ==
    /\ mounted
    /\ g # data
    /\ RenderPass(g)
    /\ data' = CallerGraph(g)
    /\ lastOp' = "supply"
    /\ replaced' = [k |-> transform.k, glyphs |-> Len(glyphs),
                     paths |-> Len(paths)]
    /\ UNCHANGED charW

\* the caller hands over a new object holding the same Graph: the effect
\* runs a second pass over it
Rerender ==
    /\ mounted
    /\ RenderPass(data)
    /\ data' = CallerGraph(data)
    /\ lastOp' = "rerender"
    /\ replaced' = <<>>
    /\ UNCHANGED charW

\* a zoom event of scaleBy: the new scale, and the translation that keeps
\* the view centre fixed (any of Translations; unchanged with the scale)
ZoomBy(tenths) ==
    /\ Representable(transform.k, tenths)
    /\ \E x \in Translations, y \in Translations :
          transform' =
              IF ScaleBy(transform.k, tenths) = transform.k THEN transform
              ELSE [k |-> ScaleBy(transform.k, tenths), x |-> x, y |-> y]
    /\ zoomLevel' = transform'.k

handleZoomIn ==
    /\ mounted
    /\ ZoomBy(ZOOM_IN_TENTHS)
    /\ zoomIns' = IF zoomIns < 0 THEN -1 ELSE Min2(zoomIns + 1, MaxZoomIns)
    /\ lastOp' = "zoomIn"
    /\ replaced' = <<>>
    /\ UNCHANGED <<data, charW, mounted, scene>>

handleZoomOut ==
    /\ mounted
    /\ ZoomBy(ZOOM_OUT_TENTHS)
    /\ zoomIns' = -1
    /\ lastOp' = "zoomOut"
    /\ replaced' = <<>>
    /\ UNCHANGED <<data, charW, mounted, scene>>

handleResetZoom ==
    /\ mounted
    /\ transform' = ResetTransform
    /\ zoomLevel' = transform'.k
    /\ zoomIns' = -1
    /\ lastOp' = "reset"
    /\ replaced' = <<>>
    /\ UNCHANGED <<data, charW, mounted, scene>>

\* a drag or wheel gesture handled by d3-zoom on the svg
Gesture ==
    /\ mounted
    /\ \E k \in WheelScales \cup {transform.k},
          x \in Translations, y \in Translations :
          transform' = [k |-> ScaleClamp(k), x |-> x, y |-> y]
    /\ zoomLevel' = transform'.k
    /\ zoomIns' = -1
    /\ lastOp' = "gesture"
    /\ replaced' = <<>>
    /\ UNCHANGED <<data, charW, mounted, scene>>

(***************************************************************************)
(* Spec: the component under user interaction, over ViewGraphs.            *)
(* SpecRender: the render pass alone, over every input graph.              *)
(***************************************************************************)
Init ==
    /\ data \in ViewGraphs
    /\ charW = PlainCharWidth
    /\ Unmounted

Next ==
    \/ Mount
    \/ \E g \in ViewGraphs : SupplyGraph(g)
    \/ Rerender
    \/ handleZoomIn
    \/ handleZoomOut
    \/ handleResetZoom
    \/ Gesture

Spec == Init /\ [][Next]_vars

InitRender ==
    /\ \/ /\ data \in ShapeGraphs \cup LateHubGraphs \cup EmptyNodeGraphs
                      \cup LinkGraphs
          /\ charW = PlainCharWidth
       \/ /\ data \in LabelGraphs
          /\ charW \in CharWidths
    /\ Unmounted

NextRender ==
    \/ Mount
    \/ Rerender

SpecRender == InitRender /\ [][NextRender]_vars

(***************************************************************************)
(* Claims about the viewport (checked under Spec).                         *)
(***************************************************************************)
\* C1: in every reachable state the viewport scale lies within
\* [MIN_SCALE, MAX_SCALE], whatever zoomIn, zoomOut, reset, gesture and
\* graph changes came before; a zoomIn or zoomOut whose product leaves the
\* range ends on the bound; and after MaxZoomIns (50) consecutive zoomIn
\* calls from the initial scale 0.8 the scale is exactly MAX_SCALE = 3
\* (it is 1.04 after the first and 2.970... after the fifth).
C1_ScaleWithinExtent ==
    /\ MIN_SCALE <= transform.k
    /\ transform.k <= MAX_SCALE
    /\ zoomIns = MaxZoomIns => transform.k = MAX_SCALE
    /\ zoomIns = 1 => transform.k = (104 * ScaleUnit) \div 100
    /\ zoomIns = 5 => transform.k \div (ScaleUnit \div 1000) = 2970

\* C1 witness: 50 consecutive zoomIn calls have run since the render pass
\* and the scale stands clamped at the upper bound.
C1_Witness ==
    /\ mounted
    /\ lastOp = "zoomIn"
    /\ zoomIns = MaxZoomIns
    /\ transform.k = MAX_SCALE

\* C2: after reset() the scale is the configured initial value
\* INITIAL_SCALE (0.8) and the translation is (0, 0).
C2_ResetRestoresInitial ==
    lastOp = "reset" => transform = InitialTransform

(***************************************************************************)
(* Claims about the render pass (checked under SpecRender).                *)
(***************************************************************************)
HubGlyphs == {n \in 1..Len(glyphs) : glyphs[n].type = "main_reservoir"}

RECURSIVE Flatten(_)
Flatten(lines) ==
    IF lines = <<>> THEN <<>> ELSE Head(lines) \o Flatten(Tail(lines))

\* a drawn line is wider than maxWidth at font size fs
TooWide(line, fs) == Measure(line, fs, charW) > maxWidth * 10

\* C3: the font size the hub text is drawn with is never below the floor
\* MIN_FONT (10) nor above MAX_FONT (16), for every label and text metric,
\* so a label that does not fit at the floor is drawn at exactly 10.
C3_FontSizeNeverBelowFloor ==
    \A n \in HubGlyphs :
        /\ glyphs[n].fontSize >= MIN_FONT
        /\ glyphs[n].fontSize <= MAX_FONT

\* C4 as claimed: every line of the hub's wrapping measures at most
\* maxWidth at the font size it is drawn with, single over-wide words
\* included.
C4_EveryLineFits ==
    \A n \in HubGlyphs :
        \A i \in 1..Len(glyphs[n].lines) :
            ~TooWide(glyphs[n].lines[i], glyphs[n].fontSize)

\* C4 as amended: every line that holds two or more words measures at most
\* maxWidth at the font size it is drawn with; a line wider than maxWidth
\* is one single word that is itself wider than maxWidth; and the lines
\* hold the label's words, all of them and in order.
C4_MultiWordLinesFit ==
    \A n \in HubGlyphs :
        /\ \A i \in 1..Len(glyphs[n].lines) :
              TooWide(glyphs[n].lines[i], glyphs[n].fontSize)
                  => Len(glyphs[n].lines[i]) = 1
        /\ Flatten(glyphs[n].lines) = nodes[n].label

\* C4 witness: a hub label was wrapped onto several lines, one of them
\* holding two words and another a single word wider than maxWidth.
C4_Witness ==
    /\ mounted
    /\ \E n \in HubGlyphs :
          /\ Len(glyphs[n].lines) >= 2
          /\ \E i \in 1..Len(glyphs[n].lines) : Len(glyphs[n].lines[i]) >= 2
          /\ \E i \in 1..Len(glyphs[n].lines) :
                TooWide(glyphs[n].lines[i], glyphs[n].fontSize)

Placed == {n \in 1..Len(nodes) : IsNum(nodes[n].fx) /\ IsNum(nodes[n].fy)}

\* C5: the view box bounds are the bounding box of the placed nodes
\* expanded by PADDING on the top, bottom and left (more on the right), so
\* every placed node, hub included, lies at least PADDING inside the top,
\* bottom and left edges and inside the right edge.
C5_BoundsPadEveryNode ==
    (mounted /\ Placed # {}) =>
        /\ \A n \in Placed :
              /\ nodes[n].fx - PADDING >= viewBox.minX
              /\ nodes[n].fx + PADDING <= viewBox.maxX
              /\ nodes[n].fy - PADDING >= viewBox.minY
              /\ nodes[n].fy + PADDING <= viewBox.maxY
        /\ \E n \in Placed : nodes[n].fy - PADDING = viewBox.minY
        /\ \E n \in Placed : nodes[n].fy + PADDING = viewBox.maxY

OfType(t) == {n \in 1..Len(nodes) : nodes[n].type = t}
BothGroups == OfType("outflow") # {} /\ OfType("project") # {}

\* C6 as claimed: with both right-hand lists non-empty, each group is
\* centred on its anchor: node k of M sits at anchor - (M-1)*spacing/2 +
\* k*spacing, the anchors being -hubHeight/4 and +hubHeight/4.
C6_GroupsCentredOnAnchors ==
    (mounted /\ BothGroups) =>
        /\ \A n \in OfType("outflow") :
              2 * nodes[n].fy =
                  - (MAIN_RECT_HEIGHT \div 2)
                  - (Cardinality(OfType("outflow")) - 1) * NODE_SPACING
                  + 2 * Rank(nodes, n) * NODE_SPACING
        /\ \A n \in OfType("project") :
              2 * nodes[n].fy =
                  (MAIN_RECT_HEIGHT \div 2)
                  - (Cardinality(OfType("project")) - 1) * NODE_SPACING
                  + 2 * Rank(nodes, n) * NODE_SPACING

\* C6 as amended: with both right-hand lists non-empty, both groups are at
\* x = +HORIZONTAL_SPACING and grow away from the hub's centre line: outflow
\* k of M sits at -hubHeight/4 - (M-1-k)*spacing (the last outflow on the
\* anchor), associated node k sits at +hubHeight/4 + k*spacing (the first
\* one on the anchor).
C6_GroupsStackedFromAnchors ==
    (mounted /\ BothGroups) =>
        /\ \A n \in OfType("outflow") :
              /\ nodes[n].fx = HORIZONTAL_SPACING
              /\ 4 * nodes[n].fy =
                    - MAIN_RECT_HEIGHT
                    - 4 * (Cardinality(OfType("outflow")) - 1 - Rank(nodes, n))
                        * NODE_SPACING
        /\ \A n \in OfType("project") :
              /\ nodes[n].fx = HORIZONTAL_SPACING
              /\ 4 * nodes[n].fy =
                    MAIN_RECT_HEIGHT + 4 * Rank(nodes, n) * NODE_SPACING

\* C6 witness: a pass has laid out a graph with at least two outflows and
\* at least two associated nodes.
C6_Witness ==
    /\ mounted
    /\ Cardinality(OfType("outflow")) >= 2
    /\ Cardinality(OfType("project")) >= 2

\* C7: for a graph with exactly one hub, every node is positioned, no two
\* nodes share the same (x, y), and when both right-hand groups are
\* non-empty every outflow has a strictly smaller y than every associated
\* node.
C7_DistinctPositions ==
    (mounted /\ Cardinality(OfType("main_reservoir")) = 1) =>
        /\ Len(nodes) = Len(data.nodes)
        /\ Placed = 1..Len(nodes)
        /\ \A m, n \in 1..Len(nodes) :
              m # n => <<nodes[m].fx, nodes[m].fy>> # <<nodes[n].fx, nodes[n].fy>>
        /\ \A o \in OfType("outflow"), a \in OfType("project") :
              nodes[o].fy < nodes[a].fy

\* C7 witness: the graph of 1 hub, 3 inflows, 2 outflows and 3 associated
\* nodes has been laid out: 9 positioned nodes.
C7_Witness ==
    /\ mounted
    /\ data = mixedData
    /\ Cardinality(Placed) = 9

\* the category is alone in its column
AloneInColumn(t) ==
    \/ t = "inflow"
    \/ t = "outflow" /\ OfType("project") = {}
    \/ t = "project" /\ OfType("outflow") = {}

RECURSIVE SumFy(_)
SumFy(S) ==
    IF S = {} THEN 0
    ELSE LET n == CHOOSE m \in S : TRUE IN nodes[n].fy + SumFy(S \ {n})

\* C8: a column that holds one category alone (the inflow column always,
\* the right column when exactly one of outflow/associated is non-empty)
\* places node i of N, in input order, at y = -(N-1)*spacing/2 + i*spacing
\* and x = -/+HORIZONTAL_SPACING: the first node is topmost, the y's sum to
\* 0, and a single node is at y = 0.
C8_ColumnCentred ==
    mounted =>
        \A t \in {"inflow", "outflow", "project"} :
            AloneInColumn(t) =>
                /\ \A n \in OfType(t) :
                      /\ 2 * nodes[n].fy =
                            - (Cardinality(OfType(t)) - 1) * NODE_SPACING
                            + 2 * Rank(data.nodes, n) * NODE_SPACING
                      /\ nodes[n].fx = IF t = "inflow" THEN - HORIZONTAL_SPACING
                                       ELSE HORIZONTAL_SPACING
                /\ \A m, n \in OfType(t) : m < n => nodes[m].fy < nodes[n].fy
                /\ SumFy(OfType(t)) = 0
                /\ Cardinality(OfType(t)) = 1 =>
                      \A n \in OfType(t) : nodes[n].fy = 0

\* C8 witness: a pass has laid out three inflows and, alone in the right
\* column, two outflows.
C8_Witness ==
    /\ mounted
    /\ Cardinality(OfType("inflow")) = 3
    /\ Cardinality(OfType("outflow")) = 2
    /\ OfType("project") = {}

\* C9: every emitted path has exactly four points - start, (midX, start.y),
\* (midX, end.y), end with midX = (start.x + end.x)/2 - so its segments are
\* horizontal, vertical, horizontal; the four points are there also when a
\* segment has length zero.
C9_PathHasFourPoints ==
    \A i \in 1..Len(paths) :
        LET p == paths[i].points
        IN /\ Len(p) = 4
           /\ p[2][2] = p[1][2]
           /\ p[3][1] = p[2][1]
           /\ p[4][2] = p[3][2]
           /\ IF IsNum(p[1][1]) /\ IsNum(p[4][1])
                 THEN 2 * p[2][1] = p[1][1] + p[4][1]
                 ELSE p[2][1] = NaN

\* C9 witness: a path with start.y = end.y and a path with start.x = end.x
\* have been emitted in one pass.
C9_Witness ==
    /\ mounted
    /\ \E i \in 1..Len(paths) :
          /\ IsNum(paths[i].points[1][2])
          /\ paths[i].points[1][2] = paths[i].points[4][2]
          /\ paths[i].points[1][1] # paths[i].points[4][1]
    /\ \E i \in 1..Len(paths) :
          /\ IsNum(paths[i].points[1][1])
          /\ paths[i].points[1][1] = paths[i].points[4][1]
          /\ paths[i].points[1][2] # paths[i].points[4][2]

NodeIds == {data.nodes[n].id : n \in 1..Len(data.nodes)}
Dangling(link) == link.source \notin NodeIds \/ link.target \notin NodeIds
Resolvable == {i \in 1..Len(data.links) : ~Dangling(data.links[i])}
NotDangling(link) == ~Dangling(link)

\* C10: a link whose source or target id is the id of no node produces no
\* path, and the pass completes (every node has its glyph, the legend is
\* drawn); the number of paths equals the number of links whose both ends
\* resolve, and the paths are those of the graph without its dangling links.
C10_DanglingLinksSkipped ==
    mounted =>
        /\ Len(paths) = Cardinality(Resolvable)
        /\ paths = DrawLinks(nodes, SelectSeq(data.links, NotDangling), 1)
        /\ Len(glyphs) = Len(data.nodes)
        /\ legend # <<>>

\* C10 witness: a pass over a graph whose first link is dangling and whose
\* second link resolves has emitted exactly one path.
C10_Witness ==
    /\ mounted
    /\ Len(data.links) = 2
    /\ Dangling(data.links[1])
    /\ ~Dangling(data.links[2])
    /\ Len(paths) = 1

(***************************************************************************)
(* Claims about hub count, purity and paths (checked under SpecRender).    *)
(***************************************************************************)
Hubs == {n \in 1..Len(nodes) : nodes[n].type = "main_reservoir"}

\* the Graph's nodes with one hub put in front of them
WithHub(ns) == <<INode(HubId(1), HubLabel, "main_reservoir")>> \o ns

\* C11: the pass completes for every number of hubs (a glyph per node, a
\* view box and a legend are produced); with no hub every inflow, outflow
\* and associated node gets the position it gets when a hub is present;
\* with one hub or more the first hub in input order is at the origin
\* (0, 0) and every other hub is left without a position.
C11_HubCountTolerated ==
    mounted =>
        /\ Len(glyphs) = Len(data.nodes)
        /\ viewBox # <<>>
        /\ legend # <<>>
        /\ Hubs = {} =>
              \A n \in 1..Len(nodes) :
                  /\ nodes[n].fx = LayoutNodes(WithHub(data.nodes))[n + 1].fx
                  /\ nodes[n].fy = LayoutNodes(WithHub(data.nodes))[n + 1].fy
        /\ \A h \in Hubs :
              IF \A j \in Hubs : h <= j
                  THEN nodes[h].fx = 0 /\ nodes[h].fy = 0
                  ELSE nodes[h].fx = Undefined /\ nodes[h].fy = Undefined

\* C11 witness: a graph with two hubs was rendered whose first hub in
\* input order comes after an inflow and before the other hub.
C11_Witness ==
    /\ mounted
    /\ Cardinality(Hubs) = 2
    /\ \E h \in Hubs :
          /\ h > 1
          /\ nodes[h].fx = 0
          /\ nodes[h].id # HubId(1)
          /\ \E j \in Hubs : j > h

\* the fields of a caller's node record: id, label, type and no fx, fy
CallerFields == {"id", "label", "type"}

ResolvedLinks == SelectSeq(data.links, NotDangling)
NodeWithId(id) == nodes[CHOOSE n \in 1..Len(nodes) : nodes[n].id = id]
SourceOf(i) == NodeWithId(ResolvedLinks[i].source)
TargetOf(i) == NodeWithId(ResolvedLinks[i].target)

\* C13: every path has the colour of its target's category, except that a
\* path whose target is the hub has the colour of its source's category.
C13_PathColour ==
    mounted =>
        /\ Len(paths) = Len(ResolvedLinks)
        /\ \A i \in 1..Len(paths) :
              paths[i].color =
                  IF TargetOf(i).type = "main_reservoir"
                      THEN SourceOf(i).type
                      ELSE TargetOf(i).type

\* C13 witness: one pass has drawn a path into the hub in its source's
\* colour and a path out of the hub in its target's colour.
C13_Witness ==
    /\ mounted
    /\ Len(paths) = 2
    /\ \E i, j \in 1..Len(paths) :
          /\ TargetOf(i).type = "main_reservoir"
          /\ SourceOf(i).type = "inflow"
          /\ paths[i].color = "inflow"
          /\ SourceOf(j).type = "main_reservoir"
          /\ TargetOf(j).type = "outflow"
          /\ paths[j].color = "outflow"

\* the vertical shift of a path that leaves the hub for a node of type t
HubExitShift(t) ==
    IF t = "outflow" THEN -(MAIN_RECT_HEIGHT \div 4)
    ELSE IF t = "project" THEN MAIN_RECT_HEIGHT \div 4
    ELSE 0

\* C14: a path starts at its source's own position unless the source is
\* the hub; a path that leaves the (positioned) hub starts at
\* x + MAIN_RECT_WIDTH / 2, with y shifted by -MAIN_RECT_HEIGHT / 4 for an
\* outflow target, by +MAIN_RECT_HEIGHT / 4 for an associated target and
\* not at all otherwise; every path ends at its target's own position.
C14_PathEnds ==
    mounted =>
        \A i \in 1..Len(paths) :
            /\ paths[i].points[4] = <<TargetOf(i).fx, TargetOf(i).fy>>
            /\ SourceOf(i).type # "main_reservoir" =>
                   paths[i].points[1] = <<SourceOf(i).fx, SourceOf(i).fy>>
            /\ SourceOf(i).type = "main_reservoir" /\ IsNum(SourceOf(i).fx) =>
                   paths[i].points[1] =
                       <<SourceOf(i).fx + MAIN_RECT_WIDTH \div 2,
                         SourceOf(i).fy + HubExitShift(TargetOf(i).type)>>

\* C14 witness: the hub at (0, 0) has a path to an outflow starting at
\* (90, -20), a path to an associated node starting at (90, 20), and an
\* inflow has a path into the hub that starts at the inflow itself.
C14_Witness ==
    /\ mounted
    /\ \E i, j, k \in 1..Len(paths) :
          /\ SourceOf(i).type = "main_reservoir"
          /\ TargetOf(i).type = "outflow"
          /\ paths[i].points[1] = <<90, -20>>
          /\ SourceOf(j).type = "main_reservoir"
          /\ TargetOf(j).type = "project"
          /\ paths[j].points[1] = <<90, 20>>
          /\ SourceOf(k).type = "inflow"
          /\ TargetOf(k).type = "main_reservoir"
          /\ paths[k].points[1] = <<SourceOf(k).fx, SourceOf(k).fy>>
          /\ paths[k].points[4] = <<0, 0>>

(***************************************************************************)
(* Claims about the zoom display (checked under Spec).                     *)
(***************************************************************************)
Abs(a) == IF a < 0 THEN -a ELSE a

\* C15: once the effect has run, after zoomIn, zoomOut, reset, a gesture
\* and the initial transform of every render pass alike, zoomLevel equals
\* the scale of the current transform; the percentage shown is the integer
\* nearest to 100 times that scale; and right after a render pass, as
\* before the first one, it reads 80.
C15_ZoomLevelTracksScale ==
    /\ mounted => zoomLevel = transform.k
    /\ mounted =>
          2 * Abs(ZoomDisplay(zoomLevel) * (ScaleUnit \div 100) - transform.k)
              <= ScaleUnit \div 100
    /\ lastOp \in {"none", "render", "supply", "rerender"} =>
          ZoomDisplay(zoomLevel) = 80

\* C15 witness: after three zoomIn calls the scale is 1.7576 and the
\* display reads 176.
C15_Witness ==
    /\ lastOp = "zoomIn"
    /\ zoomIns = 3
    /\ transform.k = 17576 * (ScaleUnit \div 10000)
    /\ zoomLevel = transform.k
    /\ ZoomDisplay(zoomLevel) = 176

(***************************************************************************)
(* Claims about the legend, the empty graph and the font search (checked   *)
(* under SpecRender).                                                      *)
(***************************************************************************)
\* C16: every pass lists exactly four legend rows, in the order inflow,
\* outflow, associated (project), hub, whatever categories the graph
\* holds; and when at least one node is positioned the legend's top edge
\* lies LEGEND_OFFSET (40) below the largest y among the positioned nodes,
\* the hub included.
C16_LegendStatic ==
    mounted =>
        /\ legend.items = <<"inflow", "outflow", "project", "main_reservoir">>
        /\ Placed # {} =>
              \E n \in Placed :
                  /\ \A j \in Placed : nodes[j].fy <= nodes[n].fy
                  /\ legend.y = nodes[n].fy + LEGEND_OFFSET

\* C16 witness: a graph that holds a hub and nothing else was rendered
\* with four legend rows, the legend's top edge 40 below the hub.
C16_Witness ==
    /\ mounted
    /\ Len(nodes) = 1
    /\ nodes[1].type = "main_reservoir"
    /\ Len(legend.items) = 4
    /\ legend.y = nodes[1].fy + 40

\* C17: a pass over a graph without nodes completes (view box and legend
\* are produced), emits no glyph and no path, and its content bounds are
\* four numbers with minX < maxX and minY < maxY.
C17_EmptyGraphBounds ==
    mounted /\ data.nodes = <<>> =>
        /\ glyphs = <<>>
        /\ paths = <<>>
        /\ legend # <<>>
        /\ \A f \in {"minX", "minY", "maxX", "maxY"} : IsNum(viewBox[f])
        /\ viewBox.minX < viewBox.maxX
        /\ viewBox.minY < viewBox.maxY

\* C17 witness: a graph with links and no nodes was rendered; its bounds
\* are x in [-320, 420] and y in [-100, 80].
C17_Witness ==
    /\ mounted
    /\ data.nodes = <<>>
    /\ Len(data.links) = 3
    /\ paths = <<>>
    /\ viewBox.minX = -320
    /\ viewBox.maxX = 420
    /\ viewBox.minY = -100
    /\ viewBox.maxY = 80

\* the label's wrapping at font size fs is at most maxHeight high
Fits(label, fs) ==
    Len(wrapText(label, fs, charW)) * fs * LINE_HEIGHT_TENTHS <= maxHeight * 10

FittingSizes(label) == {fs \in MIN_FONT..MAX_FONT : Fits(label, fs)}

\* C18: the font search tries 16, 15, ..., 10 in this order and takes the
\* first size whose block height (lines * size * 1.2) is at most maxHeight:
\* when some size fits, the hub text is drawn at the largest fitting size
\* with the wrapping computed at that size, after one try per size from 16
\* down to it; the search ends after at most 7 tries for every label, and
\* after exactly 7 when no size fits.
C18_LargestFittingSize ==
    \A n \in HubGlyphs :
        /\ glyphs[n].tried <= MAX_FONT - MIN_FONT + 1
        /\ FittingSizes(nodes[n].label) # {} =>
              /\ glyphs[n].fontSize \in FittingSizes(nodes[n].label)
              /\ \A fs \in FittingSizes(nodes[n].label) :
                    fs <= glyphs[n].fontSize
              /\ glyphs[n].lines =
                    wrapText(nodes[n].label, glyphs[n].fontSize, charW)
              /\ glyphs[n].tried = MAX_FONT - glyphs[n].fontSize + 1
        /\ FittingSizes(nodes[n].label) = {} => glyphs[n].tried = 7

\* C18 witness: a hub label that fits at 11 and at no size above was drawn
\* at 11 after six tries.
C18_Witness ==
    \E n \in HubGlyphs :
        /\ \A fs \in 12..MAX_FONT : ~Fits(nodes[n].label, fs)
        /\ Fits(nodes[n].label, 11)
        /\ glyphs[n].fontSize = 11
        /\ glyphs[n].tried = 6

(***************************************************************************)
(* Claims about a change of the Graph (checked under Spec).                *)
(***************************************************************************)
\* C19: after every render pass, a pass for a newly supplied Graph
\* included, the scene holds the glyphs, paths, view box and legend of the
\* latest Graph and nothing of an earlier one (one glyph per node of the
\* latest Graph, one path per link of it that resolves), and the pass
\* leaves the viewport at scale 0.8 and translation (0, 0) whatever zoom
\* operations came before it.
C19_SceneOfLatestGraph ==
    mounted =>
        /\ nodes = LayoutNodes(data.nodes)
        /\ viewBox = ViewBox(data.nodes)
        /\ glyphs = DrawNodes(nodes, charW)
        /\ Len(glyphs) = Len(data.nodes)
        /\ \A n \in 1..Len(glyphs) : glyphs[n].type = data.nodes[n].type
        /\ paths = DrawLinks(nodes, data.links, 1)
        /\ Len(paths) = Cardinality(Resolvable)
        /\ legend = Legend(nodes)
        /\ lastOp \in {"render", "supply", "rerender"} =>
              /\ transform = [k |-> (8 * ScaleUnit) \div 10, x |-> 0, y |-> 0]
              /\ zoomLevel = (8 * ScaleUnit) \div 10

\* C19 witness: a graph that holds the hub alone was supplied while a
\* scene of nine glyphs and eight paths stood zoomed in to MAX_SCALE; the
\* scene now holds one glyph and no path, at scale 0.8.
C19_Witness ==
    /\ lastOp = "supply"
    /\ replaced # <<>>
    /\ replaced.k = MAX_SCALE
    /\ replaced.glyphs = 9
    /\ replaced.paths = 8
    /\ Len(glyphs) = 1
    /\ paths = <<>>
    /\ transform.k = (8 * ScaleUnit) \div 10

(***************************************************************************)
(* Claim about the legend's coordinates (checked under SpecRender).        *)
(***************************************************************************)
\* C20: in every render pass every legend coordinate is a finite number:
\* the legend's x and its anchor y (largest node y + LEGEND_OFFSET), and
\* with it the y of every row, for every input graph, the graph without
\* nodes and the graphs without a hub included.
C20_LegendCoordinatesFinite ==
    mounted =>
        /\ IsNum(legend.x)
        /\ IsNum(legend.y)
        /\ \A i \in 1..Len(legend.items) :
              IsNum(JsAdd(legend.y, 23 + (i - 1) * LEGEND_ITEM_HEIGHT))

(***************************************************************************)
(* Claim about the coordinates of what is drawn (checked under             *)
(* SpecRender).                                                            *)
(***************************************************************************)
\* C21: everything drawn has defined coordinates: every node glyph is
\* drawn at a position the layout assigned (numeric x and y), and every
\* path has four points whose x and y are numbers, for every input graph,
\* graphs with more than one hub and links that start or end at a hub
\* other than the first included.
C21_DrawnCoordinatesDefined ==
    mounted =>
        /\ \A n \in 1..Len(glyphs) : IsNum(glyphs[n].x) /\ IsNum(glyphs[n].y)
        /\ \A i \in 1..Len(paths) :
              /\ Len(paths[i].points) = 4
              /\ \A p \in 1..4 :
                    /\ IsNum(paths[i].points[p][1])
                    /\ IsNum(paths[i].points[p][2])

====
